---- MODULE Spec2Model ----
(***************************************************************************)
(* Model of the broadcast relay of server.js: the in-memory message store, *)
(* the Socket.IO connection handler with its new_message and disconnect    *)
(* listeners, and the per-socket stream of events the server emits.        *)
(*                                                                         *)
(* Strings are tuples of one-character strings, so that String.trim() is   *)
(* computed character by character.  A new_message payload is a record     *)
(* [type, str]: the JavaScript type of the value the client sent and, for  *)
(* a string, its characters.                                               *)
(***************************************************************************)
EXTENDS Integers, Sequences, FiniteSets, TLC

\* ------------------------------------------------------------------ bounds
MaxMessages == 2     \* accepted submissions explored
MaxClock == 1        \* clock ticks explored (Date.now() readings 0..MaxClock)

\* The connections made during one process lifetime, numbered in the order
\* in which the server accepts them.
Sockets == {1, 2}

\* ------------------------------------------------------- payloads and text
WhiteSpace == {" ", "\t", "\n"}

Str(cs) == [type |-> "string", str |-> cs]
Null == [type |-> "null", str |-> <<>>]
Undefined == [type |-> "undefined", str |-> <<>>]
Num(cs) == [type |-> "number", str |-> cs]

\* The values a client emits on new_message in the tests and scripts:
\* '', '   ', null, undefined, plain text, text with surrounding blanks,
\* and a value that is not a string (the number 5).
Payloads ==
    { Str(<<>>), Str(<<" ", " ", " ">>), Null, Undefined,
      Str(<<"h", "i">>), Str(<<" ", "h", "i", " ">>),
      Num(<<"5">>) }

NoMsg == [type |-> "none", str |-> <<>>]

RECURSIVE TrimStart(_)
TrimStart(cs) ==
    IF cs # <<>> /\ Head(cs) \in WhiteSpace THEN TrimStart(Tail(cs)) ELSE cs

RECURSIVE TrimEnd(_)
TrimEnd(cs) ==
    IF cs # <<>> /\ cs[Len(cs)] \in WhiteSpace
    THEN TrimEnd(SubSeq(cs, 1, Len(cs) - 1))
    ELSE cs

\* String.prototype.trim
Trim(cs) == TrimEnd(TrimStart(cs))

\* JavaScript truthiness of a payload: null, undefined, '' and 0 are falsy.
Truthy(msg) ==
    CASE msg.type = "string" -> msg.str # <<>>
      [] msg.type = "number" -> msg.str # <<"0">>
      [] OTHER -> FALSE

\* msg.trim() on a truthy value that is not a string: trim is undefined
\* there, so the call throws a TypeError inside the listener.
Throws(msg) == Truthy(msg) /\ msg.type # "string"

\* Faulty variant: the validation without the trim test.
ValidNoTrim(msg) == Truthy(msg) /\ ~Throws(msg)

\* if (msg && msg.trim().length > 0)
Valid(msg) == Truthy(msg) /\ ~Throws(msg) /\ Len(Trim(msg.str)) > 0

\* const messageData = { id: Date.now(), text: msg }
MessageData(msg, t) == [id |-> t, text |-> msg.str]

\* Faulty variant: messages.unshift(messageData).
PushFront(store, m) == <<m>> \o store

\* Faulty variant: a store that drops its oldest record on every push.
PushEvicting(store, m) == IF store = <<>> THEN <<m>> ELSE Append(Tail(store), m)

\* messages.push(messageData)
Push(store, m) == Append(store, m)

\* Faulty variant: a replay that leaves out the oldest record.
SnapshotTail(store) == IF store = <<>> THEN store ELSE Tail(store)

\* the value handed to socket.emit('load_messages', messages)
Snapshot(store) == store

\* ------------------------------------------------------------------ events
LoadMessages(list) == [ev |-> "load_messages", data |-> list]

\* Faulty variant: a broadcast record that takes a clock reading of its own.
DisplayMessageFreshId(m) ==
    [ev |-> "display_message", data |-> <<[id |-> m.id + 1, text |-> m.text]>>]

DisplayMessage(m) == [ev |-> "display_message", data |-> <<m>>]

\* ------------------------------------------------------------------- state
VARIABLES
    messages,   \* let messages = []
    now,        \* the reading Date.now() returns
    conn,       \* per socket: "new", "connected", "closing", "disconnected"
    sent,       \* per socket: the events the server wrote to it, in order
    rcvd,       \* per socket: how many of sent[s] have reached the client
    crashed,    \* an exception escaped a listener
    lastMsg,    \* the msg of the last 'Message received:' console line
    accepted,   \* history: the records of the accepted submissions, in order
    page,       \* per socket: the browser page that opened it
    rendered    \* per page: the items of its #messages list

vars ==
    <<messages, now, conn, sent, rcvd, crashed, lastMsg, accepted, page, rendered>>

\* Faulty variant: a namespace that keeps the sockets it has disconnected.
InNamespaceStale(s) == conn[s] # "new"

\* The sockets of the io namespace: connected on the server's side.  A
\* "closing" socket is one whose client has gone away while the server has
\* not yet run its disconnect listener.
InNamespace(s) == conn[s] \in {"connected", "closing"}

\* Faulty variant: every event is written twice.
EmitTwice(s, e) ==
    IF conn[s] = "connected" THEN Append(Append(sent[s], e), e) ELSE sent[s]

\* A write to one socket: the packet is queued on an open transport and is
\* discarded on one that is no longer open.
Emit(s, e) == IF conn[s] = "connected" THEN Append(sent[s], e) ELSE sent[s]

\* Faulty variant: socket.broadcast.emit, which leaves out the sender.
RecipientsOthers(from) == {s \in Sockets : InNamespace(s) /\ s # from}

\* io.emit addresses every socket of the namespace, whichever socket's
\* listener is running (from).
Recipients(from) == {s \in Sockets : InNamespace(s)}

\* Faulty variant: a broadcast written as a loop over the sockets, in the
\* order they connected, that stops at the first failed write.
BroadcastAborting(e, from) ==
    [s \in Sockets |->
        IF /\ s \in Recipients(from)
           /\ \A c \in Recipients(from) : c <= s => conn[c] = "connected"
        THEN Emit(s, e)
        ELSE sent[s]]

\* io.emit(event, data): one write to every recipient
Broadcast(e, from) ==
    [s \in Sockets |-> IF s \in Recipients(from) THEN Emit(s, e) ELSE sent[s]]

\* ------------------------------------------------------ the audience page
\* The list item addMessageToList builds: textContent and data-id.
Item(message) == [id |-> message.id, text |-> message.text]

\* function addMessageToList(message): messagesList.appendChild(item)
AddMessageToList(list, message) == Append(list, Item(message))

\* existingMessages.forEach(addMessageToList)
RECURSIVE ForEachAdd(_, _)
ForEachAdd(list, existing) ==
    IF existing = <<>> THEN list
    ELSE ForEachAdd(AddMessageToList(list, Head(existing)), Tail(existing))

\* Faulty variant: a load_messages listener that does not clear the list.
OnLoadMessagesNoClear(list, existing) == ForEachAdd(list, existing)

\* socket.on('load_messages'): messagesList.innerHTML = '', then forEach
OnLoadMessages(list, existing) == ForEachAdd(<<>>, existing)

\* socket.on('display_message')
OnDisplayMessage(list, messageData) == AddMessageToList(list, messageData)

\* The listener the client runs for an event it receives.
Handle(list, e) ==
    IF e.ev = "load_messages"
    THEN OnLoadMessages(list, e.data)
    ELSE OnDisplayMessage(list, e.data[1])

\* The latest connection of its page, among those accepted so far.
LatestOfPage(c) ==
    /\ conn[c] # "new"
    /\ \A d \in Sockets : (conn[d] # "new" /\ page[d] = page[c]) => d <= c

\* The pages that can be opening connection s: a page loaded for it, named
\* after the socket, or a page whose latest connection has been lost and
\* whose Socket.IO client reconnects.
Openers(s) ==
    {s} \cup {page[c] : c \in {c \in Sockets :
                                 /\ conn[c] \in {"closing", "disconnected"}
                                 /\ LatestOfPage(c)}}

\* --------------------------------------------------------- the form pages
Scripts == {"submit.js", "app.js"}

\* What a participant may have typed when the form is submitted.
InputValues ==
    { <<>>, <<" ", " ", " ">>, <<"h", "i">>, <<" ", "h", "i", " ">> }

\* The value the submit listener hands to socket.emit('new_message', ...),
\* NoMsg when it emits nothing.
\*   submit.js:  if (input.value) socket.emit('new_message', input.value)
\*   app.js:     const messageText = messageInput.value.trim();
\*               if (messageText) socket.emit('new_message', messageText)
FormEmission(script, value) ==
    IF script = "submit.js"
    THEN IF value # <<>> THEN Str(value) ELSE NoMsg
    ELSE IF Trim(value) # <<>> THEN Str(Trim(value)) ELSE NoMsg

Init ==
    /\ messages = <<>>
    /\ now = 0
    /\ conn = [s \in Sockets |-> "new"]
    /\ sent = [s \in Sockets |-> <<>>]
    /\ rcvd = [s \in Sockets |-> 0]
    /\ crashed = FALSE
    /\ lastMsg = NoMsg
    /\ accepted = <<>>
    /\ page = [s \in Sockets |-> s]
    /\ rendered = [p \in Sockets |-> <<>>]

\* The wall clock advances between events.  Only the new_message listener
\* reads it, so its readings are followed while that listener can still
\* accept a message.
Tick ==
    /\ now < MaxClock
    /\ ~crashed
    /\ Len(messages) < MaxMessages
    /\ now' = now + 1
    /\ UNCHANGED <<messages, conn, sent, rcvd, crashed, lastMsg, accepted, page, rendered>>

\* Faulty variant: a connection handler that sends no load_messages.
ConnectNoReplay(s) ==
    /\ ~crashed
    /\ conn[s] = "new"
    /\ \A c \in Sockets : c < s => conn[c] # "new"
    /\ conn' = [conn EXCEPT ![s] = "connected"]
    /\ \E p \in Openers(s) : page' = [page EXCEPT ![s] = p]
    /\ UNCHANGED <<messages, now, sent, rcvd, crashed, lastMsg, accepted, rendered>>

\* io.on('connection', (socket) => { ... })
Connect(s) ==
    /\ ~crashed
    /\ conn[s] = "new"
    /\ \A c \in Sockets : c < s => conn[c] # "new"   \* numbered as accepted
    /\ conn' = [conn EXCEPT ![s] = "connected"]
    /\ sent' = [sent EXCEPT ![s] = Append(@, LoadMessages(Snapshot(messages)))]
    /\ \E p \in Openers(s) : page' = [page EXCEPT ![s] = p]
    /\ UNCHANGED <<messages, now, rcvd, crashed, lastMsg, accepted, rendered>>

\* socket.on('new_message', (msg) => { ... })
NewMessage(s, msg) ==
    /\ ~crashed
    /\ InNamespace(s)
    /\ Len(messages) < MaxMessages
    /\ lastMsg' = msg
    /\ IF Throws(msg)
       THEN /\ crashed' = TRUE
            /\ UNCHANGED <<messages, sent, accepted>>
       ELSE IF Valid(msg)
       THEN /\ messages' = Push(messages, MessageData(msg, now))
            /\ sent' = Broadcast(DisplayMessage(MessageData(msg, now)), s)
            /\ accepted' = Append(accepted, MessageData(msg, now))
            /\ UNCHANGED crashed
       ELSE UNCHANGED <<messages, sent, accepted, crashed>>
    /\ UNCHANGED <<now, conn, rcvd, page, rendered>>

\* Faulty variant: a disconnect listener that closes every connection.
DisconnectClosesAll(s) ==
    /\ ~crashed
    /\ InNamespace(s)
    /\ conn' = [c \in Sockets |-> IF InNamespace(c) THEN "disconnected" ELSE conn[c]]
    /\ UNCHANGED <<messages, now, sent, rcvd, crashed, lastMsg, accepted, page, rendered>>

\* socket.on('disconnect', () => { ... })
Disconnect(s) ==
    /\ ~crashed
    /\ InNamespace(s)
    /\ conn' = [conn EXCEPT ![s] = "disconnected"]
    /\ UNCHANGED <<messages, now, sent, rcvd, crashed, lastMsg, accepted, page, rendered>>

\* The client goes away (socket.disconnect() in the browser or the test, or
\* a dropped network) before the server has handled the disconnect.
TransportDrop(s) ==
    /\ conn[s] = "connected"
    /\ conn' = [conn EXCEPT ![s] = "closing"]
    /\ UNCHANGED <<messages, now, sent, rcvd, crashed, lastMsg, accepted, page, rendered>>

\* The next event in flight reaches the client, whose listener handles it.
Deliver(s) ==
    /\ conn[s] = "connected"
    /\ rcvd[s] < Len(sent[s])
    /\ rcvd' = [rcvd EXCEPT ![s] = @ + 1]
    /\ rendered' = [rendered EXCEPT ![page[s]] = Handle(@, sent[s][rcvd[s] + 1])]
    /\ UNCHANGED <<messages, now, conn, sent, crashed, lastMsg, accepted, page>>

\* A participant submits the form of a page whose connection is open, and
\* the server handles the new_message the script emits, if it emits one.
FormSubmit(s, script, value) ==
    /\ conn[s] = "connected"
    /\ FormEmission(script, value) # NoMsg
    /\ NewMessage(s, FormEmission(script, value))

Next ==
    \/ Tick
    \/ \E s \in Sockets : Connect(s)
    \/ \E s \in Sockets, msg \in Payloads : NewMessage(s, msg)
    \/ \E s \in Sockets, script \in Scripts, value \in InputValues :
          FormSubmit(s, script, value)
    \/ \E s \in Sockets : Disconnect(s)
    \/ \E s \in Sockets : TransportDrop(s)
    \/ \E s \in Sockets : Deliver(s)

Spec == Init /\ [][Next]_vars

\* An open connection delivers what was written to it.
FairSpec == Spec /\ \A s \in Sockets : WF_vars(Deliver(s))

\* ------------------------------------------------------------ vocabulary
IsPrefix(a, b) == Len(a) <= Len(b) /\ SubSeq(b, 1, Len(a)) = a

Last(seq) == seq[Len(seq)]

\* A text with at least one character that is not whitespace.
NonBlankText(msg) ==
    /\ msg.type = "string"
    /\ \E i \in 1..Len(msg.str) : msg.str[i] \notin WhiteSpace

\* '', a whitespace-only string, null or undefined.
BlankSubmission(msg) ==
    \/ msg.type \in {"null", "undefined"}
    \/ msg.type = "string" /\ \A i \in 1..Len(msg.str) : msg.str[i] \in WhiteSpace

\* The step is socket s's connection being accepted.
Connects(s) == conn[s] = "new" /\ conn'[s] = "connected"

\* The step is an accepted submission.
Accepts == Len(messages') = Len(messages) + 1

\* The number of messages socket s was sent as its backlog.
Backlog(s) == IF sent[s] = <<>> THEN 0 ELSE Len(sent[s][1].data)

\* Socket s was connected when message k was accepted, and still is.
ConnectedAtAccept(s, k) ==
    /\ conn[s] = "connected"
    /\ k <= Len(messages)
    /\ Backlog(s) < k

\* Where the display_message of message k lies in the stream of a socket
\* that connected before k was accepted.
Position(s, k) == k - Backlog(s) + 1

\* The client of socket s has received the display_message of message k.
HasReceived(s, k) ==
    /\ sent[s] # <<>>
    /\ Backlog(s) < k
    /\ k <= Len(messages)
    /\ Position(s, k) <= rcvd[s]
    /\ sent[s][Position(s, k)] = DisplayMessage(messages[k])

\* ---------------------------------------------------------------- claims

\* C1: the load_messages payload sent to a newly connecting client is the
\* sequence of the records of all previously accepted submissions, in
\* acceptance order, whatever connects, submits and disconnects came before.
C1_BacklogReplay ==
    [][\A s \in Sockets :
          Connects(s) => Last(sent'[s]) = LoadMessages(accepted)]_vars

C1_Witness ==
    \E s, c \in Sockets :
        /\ conn[s] = "connected"
        /\ conn[c] = "disconnected"
        /\ sent[s] = <<LoadMessages(accepted)>>
        /\ Len(accepted) = 2
        /\ accepted[1] # accepted[2]

\* C3: for every accepted submission with raw text T, the record appended
\* to the store and the record carried by display_message both have text
\* equal to T with leading and trailing whitespace removed.
C3_TrimOnAcceptance ==
    [][\A s \in Sockets, msg \in Payloads :
          NewMessage(s, msg) /\ NonBlankText(msg) =>
              /\ Accepts
              /\ Last(messages').text = Trim(msg.str)
              /\ \A c \in Sockets :
                    sent'[c] # sent[c] =>
                        Last(sent'[c]).data[1].text = Trim(msg.str)]_vars

\* C4: a submission of '', a whitespace-only string, null or undefined
\* sends no event to any client (no display_message, no error event) and
\* leaves the store exactly as it was.
C4_Validation ==
    [][\A s \in Sockets, msg \in Payloads :
          NewMessage(s, msg) /\ BlankSubmission(msg) =>
              UNCHANGED <<messages, sent, crashed>>]_vars

C4_Witness ==
    /\ lastMsg = Str(<<" ", " ", " ">>)
    /\ Len(messages) = 1
    /\ \E s \in Sockets : conn[s] = "connected" /\ Len(sent[s]) = 2

\* C5: every stored message has a numeric id, and ids are non-decreasing in
\* store order (the clock being read at acceptance time).
C5_IdOrdering ==
    /\ \A i \in 1..Len(messages) : messages[i].id \in Nat
    /\ \A i, j \in 1..Len(messages) : i < j => messages[i].id <= messages[j].id

C5_Witness ==
    /\ Len(messages) = 2
    /\ messages[1].id < messages[2].id

\* C7: every element of the store has a text whose trimmed length is
\* greater than zero.
C7_NonBlankStore ==
    \A i \in 1..Len(messages) : Len(Trim(messages[i].text)) > 0

C7_Witness ==
    /\ Len(messages) = 1
    /\ messages[1].text = <<" ", "h", "i", " ">>
    /\ BlankSubmission(lastMsg)

\* C2 (the part that holds of every step): an accepted submission writes
\* exactly one display_message to every connected client, the submitter
\* included, and no step writes more than one event to a socket.
C2_OneEventEach ==
    [][/\ \A s \in Sockets, msg \in Payloads :
             NewMessage(s, msg) /\ NonBlankText(msg) =>
                 \A c \in Sockets :
                     conn[c] = "connected" =>
                         sent'[c] = Append(sent[c], DisplayMessage(Last(messages')))
       /\ \A c \in Sockets :
             \/ sent'[c] = sent[c]
             \/ Connects(c) /\ Len(sent'[c]) = Len(sent[c]) + 1
             \/ Accepts /\ sent'[c] = Append(sent[c], DisplayMessage(Last(messages')))
      ]_vars

\* C2 as stated: whenever a connected client submits a non-blank text, every
\* client connected at that moment, the submitter included, eventually
\* receives exactly one display_message for that submission.
C2_FanOutAsStated ==
    /\ C2_OneEventEach
    /\ \A s \in Sockets, k \in 1..MaxMessages :
          ConnectedAtAccept(s, k) ~> HasReceived(s, k)

\* C2 as amended: every client connected at that moment is sent exactly one
\* display_message for the submission, and receives it unless it
\* disconnects before the event reaches it: for every submission, the
\* clients that were connected at its acceptance do not stay connected for
\* ever without having received it.
C2_FanOut ==
    /\ C2_OneEventEach
    /\ \A k \in 1..MaxMessages :
          []<>(\A s \in Sockets : ConnectedAtAccept(s, k) => HasReceived(s, k))

C2_Witness ==
    \E s, c \in Sockets :
        /\ s # c
        /\ lastMsg = Str(<<"h", "i">>)
        /\ Len(messages) = 2
        /\ Backlog(s) = 0 /\ Backlog(c) = 0
        /\ HasReceived(s, 2) /\ HasReceived(c, 2)
        /\ Len(sent[s]) = 3 /\ Len(sent[c]) = 3

\* C6: after client A has disconnected, every accepted submission is still
\* written to and delivered to every client B that remains connected (B
\* never stays connected for ever without having received it), and the
\* step that disconnects A changes nothing of B's connection, of the
\* events written to B or of the events B has received.
C6_DisconnectIsolation ==
    /\ [][\A a, b \in Sockets :
             a # b /\ conn[a] # "disconnected" /\ conn'[a] = "disconnected" =>
                 /\ conn'[b] = conn[b]
                 /\ sent'[b] = sent[b]
                 /\ rcvd'[b] = rcvd[b]]_vars
    /\ [][\A a, b \in Sockets :
             a # b /\ conn[a] = "disconnected" /\ conn[b] = "connected" /\ Accepts =>
                 sent'[b] = Append(sent[b], DisplayMessage(Last(messages')))]_vars
    /\ \A k \in 1..MaxMessages :
          []<>(\A a, b \in Sockets :
                  (a # b /\ conn[a] = "disconnected" /\ ConnectedAtAccept(b, k))
                      => HasReceived(b, k))

C6_Witness ==
    \E a, b \in Sockets :
        /\ a # b
        /\ conn[a] = "disconnected"
        /\ sent[a] = <<LoadMessages(<<>>)>>
        /\ Backlog(b) = 0
        /\ Len(messages) = 2
        /\ HasReceived(b, 1) /\ HasReceived(b, 2)

\* C8: the store starts empty; in every step the old store is a prefix of
\* the new one, its length grows by exactly one when a non-blank text is
\* submitted and by zero in every other step (connect, rejected
\* submission, disconnect, delivery, clock tick).
C8_AppendOnly ==
    /\ messages = <<>>
    /\ [][/\ IsPrefix(messages, messages')
          /\ IF \E s \in Sockets, msg \in Payloads :
                    NewMessage(s, msg) /\ NonBlankText(msg)
             THEN Len(messages') = Len(messages) + 1
             ELSE Len(messages') = Len(messages)]_vars

C8_Witness ==
    /\ Len(messages) = 2
    /\ messages[1] # messages[2]
    /\ BlankSubmission(lastMsg) = FALSE
    /\ \E s \in Sockets : conn[s] = "disconnected" /\ Len(sent[s]) = 2

\* C9: a connection that has not been accepted has been sent nothing; an
\* accepted one has been sent exactly one load_messages, as the first event
\* of its stream, ahead of every display_message.
C9_ReplayOnceAndFirst ==
    \A s \in Sockets :
        IF conn[s] = "new"
        THEN sent[s] = <<>>
        ELSE /\ sent[s] # <<>>
             /\ sent[s][1].ev = "load_messages"
             /\ \A i \in 2..Len(sent[s]) : sent[s][i].ev = "display_message"

C9_Witness ==
    \E s \in Sockets :
        /\ Len(sent[s]) = 3
        /\ rcvd[s] = 3
        /\ Backlog(s) = 0

\* C10: when a broadcast includes a socket whose client has already gone
\* away, the write to it is a no-op: every connected client is still
\* written the display_message, the store holds the appended record and
\* no exception escapes.
C10_BroadcastRobustness ==
    [][\A s \in Sockets, msg \in Payloads :
          (/\ NewMessage(s, msg)
           /\ NonBlankText(msg)
           /\ \E c \in Sockets : conn[c] = "closing") =>
              /\ Accepts
              /\ Last(messages').id = now
              /\ crashed' = FALSE
              /\ \A b \in Sockets :
                    conn[b] = "connected" =>
                        sent'[b] = Append(sent[b], DisplayMessage(Last(messages')))
      ]_vars

C10_Witness ==
    \E c, b \in Sockets :
        /\ conn[c] = "closing"
        /\ Len(sent[c]) - 1 < Len(messages) - Backlog(c)
        /\ conn[b] = "connected"
        /\ Backlog(b) < Len(messages)
        /\ HasReceived(b, Len(messages))
        /\ ~crashed

\* C11: for every sequence of connect, new_message and disconnect events
\* and every payload a client sends, no listener leaves the server crashed.
C11_NoFatalCondition == ~crashed

\* C12: handling a client's disconnect removes that client from the active
\* set and changes nothing else: the store, the other clients' membership
\* and every socket's event stream are as before (no event is sent).
C12_DisconnectFrame ==
    [][\A s \in Sockets :
          Disconnect(s) =>
              /\ ~InNamespace(s)'
              /\ \A c \in Sockets : c # s => conn'[c] = conn[c]
              /\ UNCHANGED <<messages, sent, rcvd, crashed>>]_vars

C12_Witness ==
    \E s, c \in Sockets :
        /\ conn[s] = "disconnected"
        /\ conn[c] = "connected"
        /\ Len(messages) = 1
        /\ Len(sent[s]) = 2 /\ Len(sent[c]) = 2

\* C14: no two store entries have the same id, also for submissions
\* accepted within the same clock tick.
C14_UniqueIds ==
    \A i, j \in 1..Len(messages) : i # j => messages[i].id # messages[j].id

\* The records a client has been handed so far: the load_messages payload
\* followed by the display_message records received since, in arrival order.
View(s) ==
    IF rcvd[s] = 0 THEN <<>>
    ELSE sent[s][1].data \o [i \in 1..(rcvd[s] - 1) |-> sent[s][i + 1].data[1]]

\* C15: with in-order channels, what a client has been handed is always a
\* prefix of the server store, and is the store itself once a connected
\* client has received every event written to it: nothing is missing and
\* nothing appears twice, whoever submits around the moment it connects.
C15_LiveViewConvergence ==
    \A s \in Sockets :
        /\ IsPrefix(View(s), messages)
        /\ (conn[s] = "connected" /\ rcvd[s] = Len(sent[s])) => View(s) = messages

C15_Witness ==
    \E s, c \in Sockets :
        /\ s # c
        /\ conn[s] = "connected" /\ conn[c] = "connected"
        /\ Backlog(s) = 1
        /\ Len(messages) = 2
        /\ messages[1] # messages[2]
        /\ rcvd[s] = 2
        /\ View(s) = messages

\* C16: for every accepted submission, the record carried by each
\* display_message written in that step is the record appended at the end
\* of the store, id and text, and a client that connects later is handed
\* that same record in its backlog.
C16_StoredEqualsBroadcast ==
    [][/\ Accepts =>
            \A c \in Sockets :
                sent'[c] # sent[c] =>
                    /\ Len(sent'[c]) = Len(sent[c]) + 1
                    /\ Last(sent'[c]).ev = "display_message"
                    /\ Last(sent'[c]).data = <<Last(messages')>>
       /\ \A s, c \in Sockets :
             (/\ Connects(s)
              /\ Len(sent[c]) > 1
              /\ Backlog(c) + Len(sent[c]) - 1 = Len(messages)) =>
                 Last(Last(sent'[s]).data) = Last(sent[c]).data[1]
      ]_vars

C16_Witness ==
    \E s, c \in Sockets :
        /\ s # c
        /\ Backlog(c) = 0 /\ Len(sent[c]) = 2
        /\ Backlog(s) = 1
        /\ sent[s][1].data = sent[c][2].data
        /\ messages = sent[s][1].data
        /\ messages[1].text = <<" ", "h", "i", " ">>

\* The state of a connection as the server sees it: a socket whose client
\* has gone away stays Connected until the disconnect listener has run.
Lifecycle(c) ==
    CASE c = "new" -> "Connecting"
      [] c \in {"connected", "closing"} -> "Connected"
      [] OTHER -> "Disconnected"

\* C13: a connection moves only along Connecting -> Connected ->
\* Disconnected; once Disconnected it stays so, is written no further
\* event, receives none, and no submission from it is handled; a page
\* that reconnects does so on a new connection, which starts with a replay
\* of the store as it is then.
C13_Lifecycle ==
    [][\A s \in Sockets :
          /\ \/ Lifecycle(conn'[s]) = Lifecycle(conn[s])
             \/ Lifecycle(conn[s]) = "Connecting" /\ Lifecycle(conn'[s]) = "Connected"
             \/ Lifecycle(conn[s]) = "Connected" /\ Lifecycle(conn'[s]) = "Disconnected"
          /\ conn[s] = "disconnected" =>
                /\ conn'[s] = "disconnected"
                /\ sent'[s] = sent[s]
                /\ rcvd'[s] = rcvd[s]
                /\ \A msg \in Payloads : ~NewMessage(s, msg)
          /\ Connects(s) =>
                /\ sent[s] = <<>>
                /\ sent'[s] = <<LoadMessages(messages)>>
                /\ \A c \in Sockets :
                      (c # s /\ page'[s] = page[c]) =>
                          conn[c] \in {"closing", "disconnected"}]_vars

C13_Witness ==
    /\ page[2] = 1
    /\ conn[1] = "disconnected"
    /\ conn[2] = "connected"
    /\ sent[1] = <<LoadMessages(<<>>)>>
    /\ Len(messages) = 2
    /\ Backlog(2) = 1
    /\ Len(sent[2]) = 2

\* The connection of page p that last handed it an event.
LastHeard(p) ==
    {s \in Sockets :
        /\ page[s] = p /\ rcvd[s] > 0
        /\ \A d \in Sockets : (page[d] = p /\ rcvd[d] > 0) => d <= s}

\* C17: load_messages replaces the rendered list by the payload and
\* display_message appends one item, so through any connect, disconnect
\* and reconnect cycles the list of a page is the server store as of the
\* events the page has received: a prefix of the store, each message once.
C17_ReplaceOnLoad ==
    \A p \in Sockets :
        /\ LastHeard(p) = {} => rendered[p] = <<>>
        /\ \A s \in LastHeard(p) :
              /\ Backlog(s) + rcvd[s] - 1 <= Len(messages)
              /\ rendered[p] = SubSeq(messages, 1, Backlog(s) + rcvd[s] - 1)

C17_Witness ==
    /\ page[2] = 1
    /\ rcvd[1] = 2
    /\ rcvd[2] = 2
    /\ Backlog(2) = 1
    /\ Len(messages) = 2
    /\ messages[1] # messages[2]
    /\ rendered[1] = messages

\* C18: in both submission scripts the submit listener emits new_message
\* only for an input that is non-blank after trimming, so every
\* new_message it emits is accepted and broadcast.
C18_FormSendsAcceptable ==
    [][\A s \in Sockets, script \in Scripts, value \in InputValues :
          FormSubmit(s, script, value) =>
              /\ NonBlankText(Str(value))
              /\ Accepts
              /\ \A c \in Sockets :
                    conn[c] = "connected" => Len(sent'[c]) = Len(sent[c]) + 1]_vars

====
